---- MODULE Spec2Model ----
(***************************************************************************)
(* autoplay (src/src/main.rs): a chat bot that connects, joins the         *)
(* configured channels and answers "!play" with "!play", under one global  *)
(* cooldown.                                                               *)
(*                                                                         *)
(* Strings are sequences of Unicode code points, so that trim,             *)
(* to_ascii_lowercase and ends_with are computed character by character.   *)
(* Instants are whole seconds on a monotonic clock.                        *)
(***************************************************************************)
EXTENDS Integers, Sequences, FiniteSets

VARIABLES
    pc,            \* where main, App::connect and App::run stand
    clock,         \* what time::Instant::now() returns
    config,        \* the loaded Config
    identity,      \* runner.identity.username()
    joins,         \* the joins issued so far, in order
    next_allowed,  \* App::next_allowed
    cur,           \* the message of the current loop iteration
    sent,          \* the messages handed to the writer, each with the
                   \* instant its gate call read and the outcome of the
                   \* gate call before that one
    triggered,     \* a message has passed the filter since connect
    verdict,       \* what handle made of the last message
    gate,          \* the outcome of the last dont_spam call
    failure,       \* the call whose error ended the process
    result,        \* what main returned
    probe          \* the filter applied on its own to one input

vars == <<pc, clock, config, identity, joins, next_allowed, cur, sent,
          triggered, verdict, gate, failure, result, probe>>

----------------------------------------------------------------------------
(* Bounds of the model *)

\* the clock runs from 0 to MaxTime seconds
MaxTime == 3
\* ordinary cooldowns are 0..MaxWait seconds
MaxWait == 2
\* the transport delivers events until MaxReplies replies have been issued
MaxReplies == 2
\* the configured channel list has at most MaxChannels entries
MaxChannels == 2

\* The largest second an Instant can hold. Instant + Duration is a checked
\* addition over a 64-bit second count; the model scales the width down but
\* keeps every ordinary sum clock + wait_seconds inside it.
InstantMax == 2 * (MaxTime + MaxWait) + 1

\* wait_seconds is a u64 read from the config file: the ordinary values and
\* one so large that now + wait_seconds leaves the Instant range.
WaitValues == (0 .. MaxWait) \cup {InstantMax}

----------------------------------------------------------------------------
(* Text *)

\* "!play"
PlayText == <<33, 112, 108, 97, 121>>
\* "bot"
BotSuffix == <<98, 111, 116>>

\* char::is_whitespace: the Unicode White_Space code points
is_whitespace(c) ==
    \/ c \in 9 .. 13
    \/ c \in {32, 133, 160, 5760, 8232, 8233, 8239, 8287, 12288}
    \/ c \in 8192 .. 8202

\* char::to_ascii_lowercase: only A-Z are folded
ascii_lower_char(c) == IF c \in 65 .. 90 THEN c + 32 ELSE c

to_ascii_lowercase(s) == [i \in 1 .. Len(s) |-> ascii_lower_char(s[i])]

RECURSIVE trim_start(_)
trim_start(s) ==
    IF s # <<>> /\ is_whitespace(Head(s)) THEN trim_start(Tail(s)) ELSE s

RECURSIVE trim_end(_)
trim_end(s) ==
    IF s # <<>> /\ is_whitespace(s[Len(s)])
    THEN trim_end(SubSeq(s, 1, Len(s) - 1))
    ELSE s

\* trim with only the leading white space removed
trim_start_only(s) == trim_start(s)

\* str::trim
trim(s) == trim_end(trim_start(s))

\* ends_with looking at the head of the name instead of its tail
ends_with_at_head(s, suffix) ==
    /\ Len(suffix) <= Len(s)
    /\ SubSeq(s, 1, Len(suffix)) = suffix

\* str::ends_with
ends_with(s, suffix) ==
    /\ Len(suffix) <= Len(s)
    /\ SubSeq(s, Len(s) - Len(suffix) + 1, Len(s)) = suffix

----------------------------------------------------------------------------
(* The filter, the gate and the reply *)

\* is_interesting without the check against the own username
is_interesting_no_self(name, data, username) ==
    IF ends_with(name, BotSuffix) THEN FALSE
    ELSE IF to_ascii_lowercase(trim(data)) # PlayText THEN FALSE
    ELSE TRUE

\* App::is_interesting
is_interesting(name, data, username) ==
    IF name = username THEN FALSE
    ELSE IF ends_with(name, BotSuffix) THEN FALSE
    ELSE IF to_ascii_lowercase(trim(data)) # PlayText THEN FALSE
    ELSE TRUE

\* App::is_interesting: the debug! line it writes before returning false
debug_line(name, data, username) ==
    IF name = username THEN "ignoring message from self"
    ELSE IF ends_with(name, BotSuffix) THEN "ignoring bot"
    ELSE IF to_ascii_lowercase(trim(data)) # PlayText
         THEN "ignoring non-!play message"
    ELSE "trigger"

\* dont_spam that allows without advancing next_allowed
dont_spam_no_advance(now, na, w) ==
    IF now < na THEN [ret |-> "blocked", next_allowed |-> na]
    ELSE IF now + w > InstantMax THEN [ret |-> "panicked", next_allowed |-> na]
    ELSE [ret |-> "allowed", next_allowed |-> na]

\* dont_spam that also blocks on the boundary now = next_allowed
dont_spam_le(now, na, w) ==
    IF now <= na THEN [ret |-> "blocked", next_allowed |-> na]
    ELSE IF now + w > InstantMax THEN [ret |-> "panicked", next_allowed |-> na]
    ELSE [ret |-> "allowed", next_allowed |-> now + w]

\* dont_spam in which a blocked call restarts the window
dont_spam_extend(now, na, w) ==
    IF now + w > InstantMax THEN [ret |-> "panicked", next_allowed |-> na]
    ELSE IF now < na THEN [ret |-> "blocked", next_allowed |-> now + w]
    ELSE [ret |-> "allowed", next_allowed |-> now + w]

\* dont_spam that adds the wait twice
dont_spam_double(now, na, w) ==
    IF now < na THEN [ret |-> "blocked", next_allowed |-> na]
    ELSE IF now + w > InstantMax THEN [ret |-> "panicked", next_allowed |-> na]
    ELSE [ret |-> "allowed", next_allowed |-> now + w + w]

\* dont_spam that pushes the window back when it blocks
dont_spam_penalty(now, na, w) ==
    IF now < na THEN [ret |-> "blocked", next_allowed |-> na + 1]
    ELSE IF now + w > InstantMax THEN [ret |-> "panicked", next_allowed |-> na]
    ELSE [ret |-> "allowed", next_allowed |-> now + w]

\* dont_spam that enforces a cooldown of at least one second
dont_spam_min_one(now, na, w) ==
    IF now < na THEN [ret |-> "blocked", next_allowed |-> na]
    ELSE IF now + w > InstantMax THEN [ret |-> "panicked", next_allowed |-> na]
    ELSE [ret |-> "allowed", next_allowed |-> now + (IF w = 0 THEN 1 ELSE w)]

\* dont_spam that advances next_allowed without comparing
dont_spam_unchecked(now, na, w) ==
    IF now + w > InstantMax THEN [ret |-> "panicked", next_allowed |-> na]
    ELSE [ret |-> "allowed", next_allowed |-> now + w]

\* App::dont_spam, called at instant now with self.next_allowed = na and
\* config.wait_seconds = w: what it returns and the next_allowed it leaves.
\* "panicked": Instant + Duration overflowed, the call never returns.
dont_spam(now, na, w) ==
    IF now < na THEN [ret |-> "blocked", next_allowed |-> na]
    ELSE IF now + w > InstantMax THEN [ret |-> "panicked", next_allowed |-> na]
    ELSE [ret |-> "allowed", next_allowed |-> now + w]

\* say_play that answers in the first configured channel
say_play_first_channel(channel) ==
    [channel |-> config.channels[1], text |-> PlayText]

\* App::say_play: the message handed to the writer
say_play(channel) == [channel |-> channel, text |-> PlayText]

\* an awaited call whose error is dropped instead of returned
propagate_ignored(outcome, next) == next

\* The ? operator on an awaited transport call inside run: where control
\* goes for the call's outcome.
propagate(outcome, next) == IF outcome = "ok" THEN next ELSE "exited"

\* run's let-else that also leaves the loop on a message that is no chat line
after_status_chat_only(kind) == IF kind = "privmsg" THEN "handle" ELSE "exited"

\* run's let-else that never leaves the loop
after_status_never_breaks(kind) == "handle"

\* App::run, let Status::Message(message) = status else { break }: where
\* control goes for the status next_message returned
after_status(kind) == IF kind = "session end" THEN "exited" ELSE "handle"

\* a loop that takes the next event while a send is still awaited
can_receive_while_sending(p) == p \in {"await", "sending"}

\* App::run: next_message is awaited only at the top of the loop, once
\* handle has returned
can_receive(p) == p = "await"

\* an awaited call of connect whose error is dropped instead of returned
connect_step_ignored(outcome, next) == next

\* The ? operator on an awaited transport call inside connect
connect_step(outcome, next) == IF outcome = "ok" THEN next ELSE "exited"

\* a for loop that walks the channel list from its end
join_target_reversed(channels, n) == channels[Len(channels) - n]

\* App::connect, for channel in &config.channels: the channel joined after
\* n joins
join_target(channels, n) == channels[n + 1]

----------------------------------------------------------------------------
(* Inputs *)

ChannelNames == {"alice", "bob"}

RECURSIVE SeqsUpTo(_, _)
SeqsUpTo(S, n) ==
    IF n = 0 THEN {<<>>}
    ELSE LET shorter == SeqsUpTo(S, n - 1)
         IN  shorter \cup {Append(q, x) : q \in shorter, x \in S}

Configs ==
    [channels : SeqsUpTo(ChannelNames, MaxChannels), wait_seconds : WaitValues]

\* the names the bot may be logged in under: "autoplay", "playbot"
Usernames == { <<97, 117, 116, 111, 112, 108, 97, 121>>,
               <<112, 108, 97, 121, 98, 111, 116>> }

\* other senders: "carol", "nightbot"
OtherNames == { <<99, 97, 114, 111, 108>>,
                <<110, 105, 103, 104, 116, 98, 111, 116>> }

\* chat lines of a session: "!play", " !PLAY<tab>", "!play now"
SessionTexts == { PlayText,
                  <<32, 33, 80, 76, 65, 89, 9>>,
                  <<33, 112, 108, 97, 121, 32, 110, 111, 119>> }

NoMessage == [kind |-> "none", name |-> <<>>, channel |-> "", data |-> <<>>]
NoConfig == [channels |-> <<>>, wait_seconds |-> 0]
NoProbe == [name |-> <<>>, data |-> <<>>, username |-> <<>>, out |-> "idle"]

\* the chat lines the joined channels can deliver
Privmsgs ==
    [kind : {"privmsg"}, name : {identity} \cup OtherNames,
     channel : {config.channels[i] : i \in 1 .. Len(config.channels)},
     data : SessionTexts]

\* a Status::Message that is not a chat line (a ping, a join notice)
OtherCommand == [NoMessage EXCEPT !.kind = "other"]

\* a Status that is no message (Status::Quit, Status::Eof)
SessionEnd == [NoMessage EXCEPT !.kind = "session end"]

\* Config::load's two errors
LoadFailures == {"couldn't read config file", "couldn't parse config file"}

----------------------------------------------------------------------------
(* The program *)

Init ==
    /\ pc = "load"
    /\ clock = 0
    /\ config = NoConfig
    /\ identity = <<>>
    /\ joins = <<>>
    /\ next_allowed = 0
    /\ cur = NoMessage
    /\ sent = <<>>
    /\ triggered = FALSE
    /\ verdict = "none"
    /\ gate = "never called"
    /\ failure = "none"
    /\ result = "running"
    /\ probe = NoProbe

\* a failed load after which main goes on to connect
Fail_continues(where) ==
    /\ pc' = "connect"
    /\ failure' = where
    /\ result' = result

\* the process ends with an error from the named call
Fail(where) ==
    /\ pc' = "exited"
    /\ failure' = where
    /\ result' = "Err"

\* time passes while the process runs
Tick ==
    /\ pc # "exited"
    /\ clock < MaxTime
    /\ clock' = clock + 1
    /\ UNCHANGED <<pc, config, identity, joins, next_allowed, cur, sent,
                   triggered, verdict, gate, failure, result, probe>>

\* main: Config::load
Load ==
    /\ pc = "load"
    /\ \/ /\ \E c \in Configs : config' = c
          /\ pc' = "connect"
          /\ UNCHANGED <<failure, result>>
       \/ /\ \E e \in LoadFailures : Fail(e)
          /\ UNCHANGED config
    /\ UNCHANGED <<clock, identity, joins, next_allowed, cur, sent,
                   triggered, verdict, gate, probe>>

\* App::connect: AsyncRunner::connect
Connect ==
    /\ pc = "connect"
    /\ \/ /\ \E u \in Usernames : identity' = u
          /\ pc' = connect_step("ok", "join")
          /\ UNCHANGED <<failure, result>>
       \/ /\ pc' = connect_step("err", "join")
          /\ failure' = "connect"
          /\ result' = IF pc' = "exited" THEN "Err" ELSE result
          /\ UNCHANGED identity
    /\ UNCHANGED <<clock, config, joins, next_allowed, cur, sent,
                   triggered, verdict, gate, probe>>

\* App::connect: runner.join(&channel) is issued for the next channel
JoinIssue ==
    /\ pc = "join"
    /\ Len(joins) < Len(config.channels)
    /\ joins' = Append(joins, join_target(config.channels, Len(joins)))
    /\ pc' = "joining"
    /\ UNCHANGED <<clock, config, identity, next_allowed, cur, sent,
                   triggered, verdict, gate, failure, result, probe>>

\* App::connect: the awaited join completes
JoinDone ==
    /\ pc = "joining"
    /\ \/ /\ pc' = connect_step("ok", "join")
          /\ UNCHANGED <<failure, result>>
       \/ /\ pc' = connect_step("err", "join")
          /\ failure' = "join"
          /\ result' = IF pc' = "exited" THEN "Err" ELSE result
    /\ UNCHANGED <<clock, config, identity, joins, next_allowed, cur, sent,
                   triggered, verdict, gate, probe>>

\* App::connect: every channel joined, the App is built and main calls run
Ready ==
    /\ pc = "join"
    /\ Len(joins) = Len(config.channels)
    /\ next_allowed' = clock
    /\ pc' = "await"
    /\ UNCHANGED <<clock, config, identity, joins, cur, sent,
                   triggered, verdict, gate, failure, result, probe>>

\* App::run: runner.next_message().await
NextMessage ==
    /\ can_receive(pc)
    /\ Len(sent) < MaxReplies
    /\ \/ /\ \E st \in Privmsgs \cup {OtherCommand, SessionEnd} : cur' = st
          /\ pc' = propagate("ok", after_status(cur'.kind))
          /\ result' = IF pc' = "exited" THEN "Ok" ELSE result
          /\ UNCHANGED failure
       \/ /\ pc' = propagate("err", "handle")
          /\ failure' = "recv"
          /\ result' = IF pc' = "exited" THEN "Err" ELSE result
          /\ UNCHANGED cur
    /\ UNCHANGED <<clock, config, identity, joins, next_allowed, sent,
                   triggered, verdict, gate, probe>>

\* App::handle, up to the await of the send
Handle ==
    /\ pc = "handle"
    /\ IF cur.kind # "privmsg"
       THEN /\ pc' = "await"
            /\ cur' = NoMessage
            /\ verdict' = "not a chat line"
            /\ UNCHANGED <<next_allowed, sent, triggered, gate, result>>
       ELSE IF ~is_interesting(cur.name, cur.data, identity)
       THEN /\ pc' = "await"
            /\ cur' = NoMessage
            /\ verdict' = debug_line(cur.name, cur.data, identity)
            /\ UNCHANGED <<next_allowed, sent, triggered, gate, result>>
       ELSE LET g == dont_spam(clock, next_allowed, config.wait_seconds)
            IN  /\ verdict' = "trigger"
                /\ triggered' = TRUE
                /\ gate' = g.ret
                /\ next_allowed' = g.next_allowed
                /\ CASE g.ret = "blocked" ->
                          /\ pc' = "await"
                          /\ cur' = NoMessage
                          /\ UNCHANGED <<sent, result>>
                     [] g.ret = "panicked" ->
                          /\ pc' = "exited"
                          /\ result' = "Panic"
                          /\ UNCHANGED <<cur, sent>>
                     [] OTHER ->
                          /\ pc' = "sending"
                          /\ sent' = Append(sent,
                                 [msg |-> say_play(cur.channel),
                                  at |-> clock, after |-> gate])
                          /\ UNCHANGED <<cur, result>>
    /\ UNCHANGED <<clock, config, identity, joins, failure, probe>>

\* App::say_play: the awaited encode completes
SendDone ==
    /\ pc = "sending"
    /\ \/ /\ pc' = propagate("ok", "await")
          /\ cur' = NoMessage
          /\ UNCHANGED <<failure, result>>
       \/ /\ pc' = propagate("err", "await")
          /\ failure' = "send"
          /\ result' = IF pc' = "exited" THEN "Err" ELSE result
          /\ UNCHANGED cur
    /\ UNCHANGED <<clock, config, identity, joins, next_allowed, sent,
                   triggered, verdict, gate, probe>>

Next ==
    \/ Tick
    \/ Load
    \/ Connect
    \/ JoinIssue
    \/ JoinDone
    \/ Ready
    \/ NextMessage
    \/ Handle
    \/ SendDone

Spec == Init /\ [][Next]_vars

----------------------------------------------------------------------------
(* The filter on its own: is_interesting applied to one sender, one text   *)
(* and one own username drawn from bounded sets.                           *)

\* senders: both usernames, "carol", "nightbot", "bot", "Bot", "both",
\* "roBOT" and the empty name
FilterNames ==
    Usernames \cup OtherNames \cup
    { <<98, 111, 116>>, <<66, 111, 116>>, <<98, 111, 116, 104>>,
      <<114, 111, 66, 79, 84>>, <<>> }

\* what may stand around the text: nothing, a space, tab and space, a
\* no-break space, an ideographic space, "_" and a zero width space (the
\* last two are not White_Space)
Pads == { <<>>, <<32>>, <<9, 32>>, <<160>>, <<12288>>, <<95>>, <<8203>> }

\* "!play" in every mix of upper and lower case
PlayCases ==
    { <<33, p, l, a, y>> :
        p \in {112, 80}, l \in {108, 76}, a \in {97, 65}, y \in {121, 89} }

\* near misses: "", "!pla", "!playy", "play", "! play", "!pl ay",
\* "!play now", "!pl<a grave>y", "!<fullwidth P>lay", "<inverted !>play"
NearMisses ==
    { <<>>, <<33, 112, 108, 97>>, <<33, 112, 108, 97, 121, 121>>,
      <<112, 108, 97, 121>>, <<33, 32, 112, 108, 97, 121>>,
      <<33, 112, 108, 32, 97, 121>>,
      <<33, 112, 108, 97, 121, 32, 110, 111, 119>>,
      <<33, 112, 108, 224, 121>>, <<33, 65328, 108, 97, 121>>,
      <<161, 112, 108, 97, 121>> }

FilterTexts ==
    { l \o b \o r : l \in Pads, r \in Pads, b \in PlayCases \cup NearMisses }

FilterInit ==
    /\ pc = "load"
    /\ clock = 0
    /\ config = NoConfig
    /\ identity = <<>>
    /\ joins = <<>>
    /\ next_allowed = 0
    /\ cur = NoMessage
    /\ sent = <<>>
    /\ triggered = FALSE
    /\ verdict = "none"
    /\ gate = "never called"
    /\ failure = "none"
    /\ result = "running"
    /\ probe \in [name : FilterNames, data : FilterTexts,
                  username : Usernames, out : {"pending"}]

\* is_interesting is called on the input
FilterApply ==
    /\ probe.out = "pending"
    /\ probe' = [probe EXCEPT
                   !.out = IF is_interesting(probe.name, probe.data,
                                             probe.username)
                           THEN "true" ELSE "false"]
    /\ UNCHANGED <<pc, clock, config, identity, joins, next_allowed, cur,
                   sent, triggered, verdict, gate, failure, result>>

FilterNext == FilterApply

FilterSpec == FilterInit /\ [][FilterNext]_vars

----------------------------------------------------------------------------
(* Properties *)

Last(s) == s[Len(s)]

W == config.wait_seconds

\* a step of Handle
Handled == pc = "handle" /\ pc' # "handle"

\* a step of Handle in which dont_spam was called
GateCalled == Handled /\ verdict' = "trigger"

\* C1: the cooldown is one global token: the gate instants of any two
\* replies of a session are at least wait_seconds apart, whatever channels
\* they went to.
C1_GlobalCooldown ==
    \A i, j \in 1 .. Len(sent) :
        i < j => sent[j].at >= sent[i].at + W

\* two replies to different channels, exactly wait_seconds apart
C1_Witness ==
    /\ Len(sent) = 2
    /\ W >= 1
    /\ sent[1].msg.channel # sent[2].msg.channel
    /\ sent[2].at = sent[1].at + W

\* C2: dont_spam called at instant now returns true (blocked) iff now is
\* strictly before next_allowed; when it returns false (allowed) it has set
\* next_allowed to exactly now + wait_seconds; now = next_allowed is allowed.
C2_GateDecision ==
    [][ GateCalled =>
          /\ (gate' = "blocked" <=> clock < next_allowed)
          /\ (gate' = "blocked" => next_allowed' = next_allowed)
          /\ (gate' = "allowed" => next_allowed' = clock + W) ]_vars

\* a call on the boundary, now = next_allowed, that was allowed
C2_Witness ==
    /\ pc = "sending"
    /\ gate = "allowed"
    /\ W >= 1
    /\ Len(sent) = 2
    /\ clock = sent[1].at + W
    /\ sent[2].at = clock
    /\ next_allowed = clock + W

\* C3: after an allowed gate call at t0, a gate call before t0 + W is
\* blocked and changes nothing, and a gate call at t0 + W (or later) is
\* allowed and restarts the window from its own instant, however many calls
\* were blocked in between.
C3_Window ==
    [][ (GateCalled /\ sent # <<>>) =>
          LET t0 == Last(sent).at
          IN  /\ clock < t0 + W =>
                    /\ gate' = "blocked"
                    /\ next_allowed' = next_allowed
                    /\ sent' = sent
              /\ clock >= t0 + W =>
                    /\ gate' = "allowed"
                    /\ next_allowed' = clock + W
                    /\ Len(sent') = Len(sent) + 1
                    /\ Last(sent').at = clock ]_vars

\* allowed at t0, blocked inside the window, allowed again exactly at t0 + W
C3_Witness ==
    /\ Len(sent) = 2
    /\ W >= 2
    /\ sent[2].after = "blocked"
    /\ sent[2].at = sent[1].at + W
    /\ next_allowed = sent[2].at + W

\* C4 as stated: at the instant the send of a reply is issued the current
\* time is not strictly before the next_allowed the session holds at that
\* instant (next_allowed being reset only once the reply is sent).
C4_SendNotBeforeNextAllowed ==
    (pc = "sending" /\ clock = Last(sent).at) => ~(clock < next_allowed)

\* C4, amended: a reply is issued only by a gate call whose instant is not
\* strictly before the next_allowed held before that call, and that call
\* has already set next_allowed to its instant + wait_seconds when the send
\* is issued; the value stays so while the send is in flight.
C4_GateBeforeSend ==
    [][ /\ sent' # sent =>
              /\ ~(clock < next_allowed)
              /\ next_allowed' = clock + W
              /\ pc' = "sending"
        /\ pc' = "sending" => next_allowed' = Last(sent').at + W ]_vars

\* a send in flight while the clock is strictly before next_allowed
C4_Witness ==
    /\ pc = "sending"
    /\ W >= 1
    /\ clock = Last(sent).at
    /\ clock < next_allowed

\* C5: the first trigger handled after connect is allowed by the gate and
\* produces a reply, for every wait_seconds.
C5_FirstTriggerReplies ==
    [][ (GateCalled /\ ~triggered) =>
          /\ gate' = "allowed"
          /\ Len(sent') = Len(sent) + 1 ]_vars

\* the text is "!play" in any mix of cases between two runs of white space
IsPlayLine(d) ==
    \E i \in 0 .. Len(d) :
        /\ i + 5 <= Len(d)
        /\ \A k \in 1 .. i : is_whitespace(d[k])
        /\ \A k \in i + 6 .. Len(d) : is_whitespace(d[k])
        /\ d[i + 1] = 33
        /\ d[i + 2] \in {112, 80}
        /\ d[i + 3] \in {108, 76}
        /\ d[i + 4] \in {97, 65}
        /\ d[i + 5] \in {121, 89}

\* the name's last three characters are b, o, t
EndsInBot(n) ==
    /\ Len(n) >= 3
    /\ n[Len(n) - 2] = 98
    /\ n[Len(n) - 1] = 111
    /\ n[Len(n)] = 116

\* C6: is_interesting returns true iff the sender is not the own username,
\* the sender's name does not end in "bot" (case-sensitive) and the text,
\* trimmed and ASCII lower-cased, is exactly "!play".
C6_FilterIff ==
    probe.out \in {"true", "false"} =>
        (probe.out = "true" <=>
            /\ probe.name # probe.username
            /\ ~EndsInBot(probe.name)
            /\ IsPlayLine(probe.data))

\* " !PLAY " with white space on both sides passes
C6_Witness ==
    /\ probe.out = "true"
    /\ Len(probe.data) = 8
    /\ probe.data[3] = 33
    /\ probe.data[4] = 80
    /\ is_whitespace(probe.data[8])

\* C7: a message whose sender is the bot's own username never passes the
\* filter: handling it sends nothing and leaves the cooldown alone,
\* whatever its text and whatever the cooldown state.
C7_SelfNeverTriggers ==
    [][ (Handled /\ cur.kind = "privmsg" /\ cur.name = identity) =>
          /\ verdict' # "trigger"
          /\ sent' = sent
          /\ next_allowed' = next_allowed
          /\ pc' = "await" ]_vars

\* an own message was handled while the gate was open, and nothing was sent
C7_Witness ==
    /\ verdict = "ignoring message from self"
    /\ pc = "await"
    /\ ~EndsInBot(identity)
    /\ clock >= next_allowed
    /\ sent = <<>>

\* C8: a message whose sender's name ends in "bot" never passes the
\* filter: handling it sends nothing and leaves next_allowed unchanged.
C8_BotsNeverTrigger ==
    [][ (Handled /\ cur.kind = "privmsg" /\ EndsInBot(cur.name)) =>
          /\ verdict' # "trigger"
          /\ sent' = sent
          /\ next_allowed' = next_allowed
          /\ pc' = "await" ]_vars

\* a message of another bot was handled while the gate was open
C8_Witness ==
    /\ verdict = "ignoring bot"
    /\ pc = "await"
    /\ clock >= next_allowed
    /\ sent = <<>>

\* a message that passes the filter and that the gate allows is handled
Replied ==
    /\ Handled
    /\ cur.kind = "privmsg"
    /\ is_interesting(cur.name, cur.data, identity)
    /\ dont_spam(clock, next_allowed, W).ret = "allowed"

\* C9: a message that passes the filter and is allowed by the gate causes
\* exactly one send, of the text "!play" to the channel the message came
\* from; nothing else sends.
C9_OneReplyToOrigin ==
    [][ /\ Replied =>
              /\ Len(sent') = Len(sent) + 1
              /\ SubSeq(sent', 1, Len(sent)) = sent
              /\ Last(sent').msg =
                     [channel |-> cur.channel,
                      text |-> <<33, 112, 108, 97, 121>>]
        /\ ~Replied => sent' = sent ]_vars

\* a trigger " !PLAY<tab>" from the second configured channel was answered
\* with "!play" in that channel
C9_Witness ==
    /\ pc = "sending"
    /\ Len(config.channels) = 2
    /\ cur.channel # config.channels[1]
    /\ cur.data # <<33, 112, 108, 97, 121>>
    /\ Last(sent).msg.channel = cur.channel
    /\ Last(sent).msg.text = <<33, 112, 108, 97, 121>>

\* C10: a transport error while awaiting the next event or while sending a
\* reply makes run return that error, and after it nothing is received,
\* filtered, gated or sent.
C10_TransportErrorIsFatal ==
    [][ /\ failure' \in {"recv", "send"} =>
              /\ pc' = "exited"
              /\ result' = "Err"
        /\ failure \in {"recv", "send"} => UNCHANGED vars ]_vars

\* the send of a reply failed and the process has ended with the error
C10_Witness ==
    /\ failure = "send"
    /\ pc = "exited"
    /\ result = "Err"
    /\ sent # <<>>

\* the session exists and run is in its loop
Running == pc \in {"await", "handle", "sending"}

\* C11: when next_message returns a status that is no message, run leaves
\* the loop and returns Ok, not an error; afterwards nothing is awaited,
\* handled or sent.
C11_SessionEndIsNormal ==
    [][ /\ (cur'.kind = "session end" /\ cur.kind # "session end") =>
              /\ pc' = "exited"
              /\ result' = "Ok"
              /\ failure' = "none"
              /\ sent' = sent
        /\ cur.kind = "session end" => UNCHANGED vars ]_vars

\* the session ended normally after a reply had been sent
C11_Witness ==
    /\ cur.kind = "session end"
    /\ pc = "exited"
    /\ result = "Ok"
    /\ Len(sent) = 1

\* C12: connect issues one join per entry of the channel list, in list
\* order with duplicates kept, each only once the join before it has
\* completed; on a successful connect the joins issued are the list.
C12_JoinsFollowList ==
    [][ /\ joins' # joins =>
              /\ pc = "join"
              /\ pc' = "joining"
              /\ Len(joins') = Len(joins) + 1
              /\ SubSeq(joins', 1, Len(joins)) = joins
        /\ joins' = SubSeq(config'.channels, 1, Len(joins'))
        /\ Running' => joins' = config'.channels ]_vars

\* a list of two different channels was joined in its order
C12_Witness ==
    /\ pc = "await"
    /\ config.channels = <<"bob", "alice">>
    /\ joins = <<"bob", "alice">>

\* C13: a failed transport connect or channel join ends connect with the
\* error, without retry: no later channel is joined, no session is built
\* and the loop never starts; a running session has joined every channel.
C13_ConnectFailureIsFatal ==
    [][ /\ failure' \in {"connect", "join"} =>
              /\ pc' = "exited"
              /\ result' = "Err"
              /\ cur' = NoMessage
              /\ sent' = <<>>
              /\ verdict' = "none"
              /\ gate' = "never called"
        /\ failure' = "connect" => joins' = <<>>
        /\ failure \in {"connect", "join"} => UNCHANGED vars
        /\ Running' => (failure' = "none" /\ joins' = config'.channels) ]_vars

\* the first of two joins failed: the second channel was never joined
C13_Witness ==
    /\ failure = "join"
    /\ pc = "exited"
    /\ result = "Err"
    /\ Len(config.channels) = 2
    /\ Len(joins) = 1

\* C14: a failed configuration load is fatal before any network activity:
\* no connect, no join and no send ever happens in that run.
C14_LoadFailureBeforeNetwork ==
    [][ /\ failure' \in LoadFailures =>
              /\ pc' = "exited"
              /\ result' = "Err"
              /\ identity' = <<>>
              /\ joins' = <<>>
              /\ sent' = <<>>
        /\ failure \in LoadFailures => UNCHANGED vars ]_vars

\* the config file could not be parsed and the process has ended
C14_Witness ==
    /\ failure = "couldn't parse config file"
    /\ pc = "exited"
    /\ result = "Err"
    /\ identity = <<>>

\* C15: a chat message that fails the filter, or a trigger the gate
\* blocks, is a no-op: nothing is sent, next_allowed stays (only an allowed
\* gate call changes it once the session runs), no error is reported and
\* the loop awaits the next event.
C15_RejectedIsNoOp ==
    [][ /\ (/\ Handled
            /\ cur.kind = "privmsg"
            /\ \/ ~is_interesting(cur.name, cur.data, identity)
               \/ clock < next_allowed) =>
              /\ sent' = sent
              /\ next_allowed' = next_allowed
              /\ pc' = "await"
              /\ result' = "running"
              /\ failure' = "none"
        /\ (Running /\ next_allowed' # next_allowed) =>
              (GateCalled /\ gate' = "allowed") ]_vars

\* a trigger was blocked inside the window of the one reply sent so far
C15_Witness ==
    /\ pc = "await"
    /\ verdict = "trigger"
    /\ gate = "blocked"
    /\ W >= 1
    /\ Len(sent) = 1
    /\ next_allowed = sent[1].at + W
    /\ result = "running"

\* C16: processing is sequential and single-flight: an event is taken from
\* the transport only when the one before it is fully handled, a send is
\* issued only for the message in hand and never while another send is
\* awaited, and replies leave in the order of their triggers.
C16_SingleFlight ==
    [][ /\ (cur' # cur /\ cur'.kind # "none") => pc = "await"
        /\ sent' # sent =>
              /\ pc = "handle"
              /\ pc' = "sending"
              /\ sent' = Append(sent, Last(sent'))
              /\ Last(sent').msg.channel = cur.channel
              /\ Last(sent').at = clock
        /\ \A i, j \in 1 .. Len(sent') :
               i < j => sent'[i].at <= sent'[j].at ]_vars

\* the second reply is in flight, for the message in hand, the first done
C16_Witness ==
    /\ pc = "sending"
    /\ Len(sent) = 2
    /\ sent[1].msg.channel # sent[2].msg.channel
    /\ cur.channel = sent[2].msg.channel
    /\ sent[1].at < sent[2].at

\* C17: a Status::Message that is not a Privmsg sends nothing, leaves
\* next_allowed unchanged and does not end the loop; run ends normally only
\* on a status that is no message.
C17_OtherCommandsIgnored ==
    [][ /\ (cur'.kind = "other" /\ pc = "await") => pc' = "handle"
        /\ (Handled /\ cur.kind = "other") =>
              /\ sent' = sent
              /\ next_allowed' = next_allowed
              /\ gate' = gate
              /\ pc' = "await"
              /\ result' = "running"
        /\ (result' = "Ok" /\ result # "Ok") => cur'.kind = "session end"
      ]_vars

\* a ping was handled while the gate was open, and the loop goes on
C17_Witness ==
    /\ verdict = "not a chat line"
    /\ pc = "await"
    /\ clock >= next_allowed
    /\ sent = <<>>
    /\ result = "running"

\* C18: next_allowed is never more than wait_seconds ahead of the clock and
\* never decreases; so a trigger handled wait_seconds or more after the
\* last accepted reply (or before any reply) is never blocked.
C18_BoundedSilence ==
    [][ /\ next_allowed' <= clock' + W'
        /\ next_allowed' >= next_allowed
        /\ (GateCalled /\ (sent = <<>> \/ clock >= Last(sent).at + W)) =>
              gate' # "blocked" ]_vars

\* after blocked triggers, one arriving more than wait_seconds after the
\* last reply was allowed
C18_Witness ==
    /\ pc = "sending"
    /\ W >= 1
    /\ Len(sent) = 2
    /\ sent[2].after = "blocked"
    /\ sent[2].at > sent[1].at + W
    /\ next_allowed = clock + W

\* C19: with wait_seconds = 0 the gate never blocks: every message that
\* passes the filter gets exactly one reply, also two at the same instant.
C19_ZeroWaitNeverBlocks ==
    [][ (GateCalled /\ W = 0) =>
          /\ gate' = "allowed"
          /\ Len(sent') = Len(sent) + 1
          /\ SubSeq(sent', 1, Len(sent)) = sent ]_vars

\* two triggers handled at the same instant were both answered
C19_Witness ==
    /\ W = 0
    /\ Len(sent) = 2
    /\ sent[1].at = sent[2].at

====
